---------------------------- MODULE Spec2Model ----------------------------
(* Line-break marker reconciliation for bilingual dialogue tables:         *)
(* check_newlines.py, fix_newlines.py, fix_newlines_with_ai.py,            *)
(* fix_newlines_with_api.py and remove_tags.py.                            *)
(*                                                                         *)
(* A text is a sequence of characters; a character is a short string.      *)
(* "\\" is the backslash and "n" the letter n: together they are the       *)
(* literal two-character marker the scripts write as '\\n'.  The full-     *)
(* width punctuation of fix_newlines.py is named by its pinyin: "ju" is    *)
(* the full stop, "tan" the exclamation mark, "wen" the question mark,     *)
(* "dou" the comma, "dun" the enumeration comma, "fen" the semicolon and   *)
(* "mao" the colon.  "zh" is any non-ASCII letter, "1" a digit, "sp" a     *)
(* blank, "nl" a physical line feed and "bq" the backquote.                 *)
EXTENDS Integers, Sequences, FiniteSets, TLC

\* None, as a value a text variable may hold
None == <<"None">>

\* what re.search and pattern.match return when nothing matches
NoMatch == [found |-> FALSE, start |-> 0, end |-> 0, inner |-> <<>>]

(***************************************************************************)
(* Python str primitives, computed the way CPython computes them.          *)
(***************************************************************************)
Marker == <<"\\", "n">>

AsciiLetters == {"a", "b", "n"}

Whitespace == {"sp", "nl"}

\* s[lo:hi] for 0 <= lo, hi (Python slice, 0-based, hi exclusive)
Slice(s, lo, hi) == SubSeq(s, lo + 1, IF hi > Len(s) THEN Len(s) ELSE hi)

\* does sub occur in s at 0-based position i
MatchAt(s, sub, i) ==
    /\ i + Len(sub) <= Len(s)
    /\ \A k \in 1..Len(sub) : s[i + k] = sub[k]

startswith(s, sub) == MatchAt(s, sub, 0)

endswith(s, sub) == Len(sub) <= Len(s) /\ MatchAt(s, sub, Len(s) - Len(sub))

RECURSIVE FindFrom(_, _, _)
FindFrom(s, sub, i) ==
    IF i + Len(sub) > Len(s) THEN -1
    ELSE IF MatchAt(s, sub, i) THEN i
    ELSE FindFrom(s, sub, i + 1)

\* s.find(sub): the lowest 0-based index, or -1
find(s, sub) ==
    LET P == {p \in 0..(Len(s) - Len(sub)) : MatchAt(s, sub, p)}
    IN  IF P = {} THEN -1 ELSE CHOOSE p \in P : \A q \in P : p <= q

\* sub in s
contains(s, sub) == find(s, sub) # -1

RECURSIVE CountFrom(_, _, _)
CountFrom(s, sub, i) ==
    LET p == FindFrom(s, sub, i)
    IN  IF p = -1 THEN 0 ELSE 1 + CountFrom(s, sub, p + Len(sub))

\* s.count(sub): non-overlapping occurrences, scanning from the left
count(s, sub) == CountFrom(s, sub, 0)

RECURSIVE split(_, _)
\* s.split(sep) with an explicit separator
split(s, sep) ==
    LET p == find(s, sep)
    IN  IF p = -1 THEN <<s>>
        ELSE <<Slice(s, 0, p)>> \o split(Slice(s, p + Len(sep), Len(s)), sep)

RECURSIVE lstrip(_)
lstrip(s) == IF s # <<>> /\ s[1] \in Whitespace THEN lstrip(Tail(s)) ELSE s

RECURSIVE rstrip(_)
rstrip(s) ==
    IF s # <<>> /\ s[Len(s)] \in Whitespace
    THEN rstrip(SubSeq(s, 1, Len(s) - 1)) ELSE s

strip(s) == rstrip(lstrip(s))

RECURSIVE remove(_, _)
\* s.replace(sub, '')
remove(s, sub) ==
    LET p == find(s, sub)
    IN  IF p = -1 THEN s
        ELSE Slice(s, 0, p) \o remove(Slice(s, p + Len(sub), Len(s)), sub)

(***************************************************************************)
(* NewlineCounter                                                          *)
(***************************************************************************)
count_newlines(text) == IF text = None THEN 0 ELSE count(text, Marker)

(***************************************************************************)
(* PunctuationInserter (fix_newlines.py)                                   *)
(***************************************************************************)
punctuation_priority == <<"ju", "tan", "wen", "dou", "dun", "fen", "mao">>

RECURSIVE AddFrom(_, _)
\* the for loop over punctuation_priority, from the k-th entry on
AddFrom(text, k) ==
    IF k > Len(punctuation_priority) THEN text
    ELSE LET punct == <<punctuation_priority[k]>>
             pos   == find(text, punct)
         IN  IF contains(text, punct) /\ pos # -1 /\ pos < Len(text) - 1
             THEN Slice(text, 0, pos + 1) \o Marker \o Slice(text, pos + 1, Len(text))
             ELSE AddFrom(text, k + 1)

\* a plausible slip: the test that pos is not the last index is dropped
add_newline_after_punctuation_AtEnd(text) ==
    LET RECURSIVE go(_)
        go(k) == IF k > Len(punctuation_priority) THEN text
                 ELSE LET punct == <<punctuation_priority[k]>>
                          pos   == find(text, punct)
                      IN  IF pos # -1
                          THEN Slice(text, 0, pos + 1) \o Marker
                                 \o Slice(text, pos + 1, Len(text))
                          ELSE go(k + 1)
    IN  go(1)

add_newline_after_punctuation(text) == AddFrom(text, 1)

(***************************************************************************)
(* TranslationValidator (fix_newlines_with_api.py)                         *)
(***************************************************************************)
isascii(c) == c \in AsciiLetters \cup {"\\", "1", "sp", "nl", "bq", "<", ">", "/", "="}

isalpha(c) == c \in AsciiLetters \cup {"zh"}

\* the loop of lines 42-55: does some part i > 0 cut an English word
CutsWord(parts) ==
    \E k \in 2..Len(parts) :
        /\ parts[k] # <<>>
        /\ parts[k - 1] # <<>>
        /\ LET char_before == parts[k - 1][Len(parts[k - 1])]
               char_after  == parts[k][1]
           IN  /\ isascii(char_before) /\ isalpha(char_before)
               /\ isascii(char_after) /\ isalpha(char_after)

\* a plausible slip: the head/tail test only looks at the head
validate_translation_HeadOnly(original_text, translated_text, target_newline_count) ==
    IF count_newlines(translated_text) # target_newline_count
    THEN [ok |-> FALSE, message |-> "count"]
    ELSE IF startswith(translated_text, Marker)
    THEN [ok |-> FALSE, message |-> "edge"]
    ELSE IF CutsWord(split(translated_text, Marker))
    THEN [ok |-> FALSE, message |-> "cut"]
    ELSE [ok |-> TRUE, message |-> "ok"]

\* a plausible slip: the head/tail test is made before the count test
validate_translation_EdgeFirst(original_text, translated_text, target_newline_count) ==
    IF startswith(translated_text, Marker) \/ endswith(translated_text, Marker)
    THEN [ok |-> FALSE, message |-> "edge"]
    ELSE IF count_newlines(translated_text) # target_newline_count
    THEN [ok |-> FALSE, message |-> "count"]
    ELSE IF CutsWord(split(translated_text, Marker))
    THEN [ok |-> FALSE, message |-> "cut"]
    ELSE [ok |-> TRUE, message |-> "ok"]

\* returns (is_valid, message); the message is named by the check that failed
validate_translation(original_text, translated_text, target_newline_count) ==
    IF count_newlines(translated_text) # target_newline_count
    THEN [ok |-> FALSE, message |-> "count"]
    ELSE IF startswith(translated_text, Marker) \/ endswith(translated_text, Marker)
    THEN [ok |-> FALSE, message |-> "edge"]
    ELSE IF CutsWord(split(translated_text, Marker))
    THEN [ok |-> FALSE, message |-> "cut"]
    ELSE [ok |-> TRUE, message |-> "ok"]

(***************************************************************************)
(* TagStripper (remove_tags.py): the pattern <(\w+)[^>]*>(.*?)</\1> as the *)
(* backtracking matcher of re runs it.                                     *)
(***************************************************************************)
WordChars == AsciiLetters \cup {"zh", "1"}

RECURSIVE WordRun(_, _)
\* how many \w characters follow from 0-based position p
WordRun(s, p) ==
    IF p < Len(s) /\ s[p + 1] \in WordChars THEN 1 + WordRun(s, p + 1) ELSE 0

RECURSIVE LazyClose(_, _, _, _)
\* (.*?)</name> from 0-based position g: the least k such that k characters,
\* none a line feed, are followed by the closing tag; -1 when there is none
LazyClose(s, g, close, k) ==
    IF g + k + Len(close) > Len(s) THEN -1
    ELSE IF MatchAt(s, close, g + k) THEN k
    ELSE IF s[g + k + 1] = "nl" THEN -1
    ELSE LazyClose(s, g, close, k + 1)

RECURSIVE TryName(_, _, _, _)
\* (\w+) is greedy: the longest name first, then shorter ones on backtracking;
\* [^>]* then runs to the first > after the name
TryName(s, p, g, L) ==
    IF L < 1 THEN NoMatch
    ELSE LET close == <<"<", "/">> \o Slice(s, p + 1, p + 1 + L) \o <<">">>
             k     == LazyClose(s, g + 1, close, 0)
         IN  IF k # -1
             THEN [found |-> TRUE, start |-> p, end |-> g + 1 + k + Len(close),
                   inner |-> Slice(s, g + 1, g + 1 + k)]
             ELSE TryName(s, p, g, L - 1)

\* pattern.match at 0-based position p
MatchHere(s, p) ==
    IF ~(p < Len(s) /\ s[p + 1] = "<") THEN NoMatch
    ELSE LET w == WordRun(s, p + 1)
             g == FindFrom(s, <<">">>, p + 1)
         IN  IF w < 1 \/ g = -1 THEN NoMatch ELSE TryName(s, p, g, w)

RECURSIVE SearchFrom(_, _)
SearchFrom(s, p) ==
    IF p >= Len(s) THEN NoMatch
    ELSE IF MatchHere(s, p).found THEN MatchHere(s, p)
    ELSE SearchFrom(s, p + 1)

\* re.search(pattern, text)
re_search(s) == SearchFrom(s, 0)

RECURSIVE SubFrom(_, _)
SubFrom(s, p) ==
    IF p >= Len(s) THEN <<>>
    ELSE LET m == MatchHere(s, p)
         IN  IF ~m.found THEN <<s[p + 1]>> \o SubFrom(s, p + 1)
             ELSE m.inner \o SubFrom(s, m.end)

\* re.sub(pattern, r'\2', text): every non-overlapping match, left to right
re_sub(s) == SubFrom(s, 0)

RECURSIVE StripLoop(_)
\* the while loop of lines 20-21
StripLoop(text) == IF re_search(text).found THEN StripLoop(re_sub(text)) ELSE text

\* a plausible slip: one substitution pass instead of the loop
remove_html_tags_OnePass(text) ==
    IF text = None \/ text = <<>> THEN text ELSE re_sub(text)

remove_html_tags(text) ==
    IF text = None \/ text = <<>> THEN text ELSE StripLoop(text)

(***************************************************************************)
(* Tables.  A table is the list csv.reader yields: table[1] is the header, *)
(* a row is a sequence of fields, a field is a text.  Python's row[3] is   *)
(* row[4] here.                                                            *)
(***************************************************************************)
RECURSIVE ScanFrom(_, _)
\* check_csv_file's loop; k is row_num, the 1-based position with the header as 1
ScanFrom(table, k) ==
    IF k > Len(table) THEN <<>>
    ELSE LET row == table[k]
         IN  IF Len(row) < 4 THEN ScanFrom(table, k + 1)
             ELSE LET text_newline_count  == count_newlines(row[3])
                      trans_newline_count == count_newlines(row[4])
                  IN  IF text_newline_count # trans_newline_count
                      THEN <<[row |-> k, id |-> row[1], name |-> row[2],
                              text |-> row[3], trans |-> row[4],
                              text_count |-> text_newline_count,
                              trans_count |-> trans_newline_count]>>
                             \o ScanFrom(table, k + 1)
                      ELSE ScanFrom(table, k + 1)

\* a plausible slip: enumerate(reader, start=1), the header not counted
check_csv_file_FromZero(table) ==
    LET m == ScanFrom(table, 2)
    IN  [x \in 1..Len(m) |-> [m[x] EXCEPT !.row = m[x].row - 1]]

\* check_newlines.check_csv_file on a readable table: the mismatch list
check_csv_file(table) == ScanFrom(table, 2)

RECURSIVE AiScanFrom(_, _)
\* the reading loop of check_and_fix_csv_file; row_index is len(rows) - 1
AiScanFrom(table, k) ==
    IF k > Len(table) THEN <<>>
    ELSE LET row == table[k]
         IN  IF Len(row) < 4 THEN AiScanFrom(table, k + 1)
             ELSE LET text_newline_count  == count_newlines(row[3])
                      trans_newline_count == count_newlines(row[4])
                  IN  IF text_newline_count # trans_newline_count
                      THEN <<[row_index |-> k - 1, row_num |-> k,
                              id |-> row[1], name |-> row[2],
                              text |-> row[3], trans |-> row[4],
                              text_count |-> text_newline_count,
                              trans_count |-> trans_newline_count]>>
                             \o AiScanFrom(table, k + 1)
                      ELSE AiScanFrom(table, k + 1)

ai_scan(table) == AiScanFrom(table, 2)

\* the row fix_csv_file appends for a data row, and whether it counted a fix
FixRow(row) ==
    IF Len(row) < 4 THEN [row |-> row, fixed |-> 0]
    ELSE LET trans_col == row[4]
             new_trans == add_newline_after_punctuation(trans_col)
         IN  IF /\ count_newlines(row[3]) = 1
                /\ count_newlines(trans_col) = 0
                /\ \E k \in 1..Len(punctuation_priority) :
                       contains(trans_col, <<punctuation_priority[k]>>)
                /\ new_trans # trans_col
             THEN [row |-> [row EXCEPT ![4] = new_trans], fixed |-> 1]
             ELSE [row |-> row, fixed |-> 0]

RECURSIVE SumFixed(_, _)
SumFixed(table, k) ==
    IF k > Len(table) THEN 0 ELSE FixRow(table[k]).fixed + SumFixed(table, k + 1)

\* a plausible slip: the len(row) < 4 guard pads the row instead of skipping it
fix_rows_Padding(table) ==
    [rows |-> [k \in 1..Len(table) |->
                 IF k = 1 THEN table[1]
                 ELSE IF Len(table[k]) < 4 THEN table[k] \o <<<<>>>>
                 ELSE FixRow(table[k]).row],
     fixed_count |-> SumFixed(table, 2)]

\* fix_csv_file's reading loop: the rows it holds and fixed_count
fix_rows(table) ==
    [rows |-> [k \in 1..Len(table) |->
                 IF k = 1 THEN table[1] ELSE FixRow(table[k]).row],
     fixed_count |-> SumFixed(table, 2)]

(***************************************************************************)
(* State.                                                                  *)
(*   prog            the script that is running                            *)
(*   pc              where it is                                           *)
(*   arg, ret        argument and return value of a function called alone  *)
(*   env             which of OPENAI_API_KEY, OPENAI_BASE_URL are set      *)
(*   files           data/*.csv: file name -> stored table                 *)
(*   report          what parse_mismatches_file returns, or NoReport       *)
(*   dry_run         fix_newlines_with_ai's answer to its first prompt     *)
(*   i               main's loop position (a file or a report entry)       *)
(*   rows, mismatches, j, fixed_count                                      *)
(*                   locals of check_and_fix_csv_file                      *)
(*   attempt, new_translation                                              *)
(*                   translate_with_api's loop variable and return value   *)
(*   cnt             main's counters                                       *)
(*   calls           history: service invocations for the current mismatch *)
(*   last            history: what the last service invocation produced    *)
(*   io              history: table reads, table writes, service calls     *)
(*   written         history: the service responses stored in a table      *)
(*   rejected        history: the repairs rejected so far                  *)
(***************************************************************************)
VARIABLES prog, pc, arg, ret, env, files, report, dry_run, i, rows,
          mismatches, j, fixed_count, attempt, new_translation, cnt, calls,
          last, io, written, rejected

unitVars == <<arg, ret>>

pipeVars == <<env, files, report, dry_run, i, rows, mismatches, j,
              fixed_count, attempt, new_translation, cnt, calls, last, io,
              written, rejected>>

vars == <<prog, pc, arg, ret, env, files, report, dry_run, i, rows,
          mismatches, j, fixed_count, attempt, new_translation, cnt, calls,
          last, io, written, rejected>>

\* newline_mismatches.txt does not exist
NoReport == [exists |-> FALSE, mismatches |-> <<>>]

ZeroCnt == [success_count |-> 0, fail_count |-> 0, skip_count |-> 0,
            total_mismatches |-> 0, total_fixed |-> 0]

\* the state of a script's variables before the script has run
PipeIdle ==
    /\ env = [key |-> TRUE, url |-> TRUE]
    /\ files = <<>>
    /\ report = NoReport
    /\ dry_run = FALSE
    /\ i = 0
    /\ rows = <<>>
    /\ mismatches = <<>>
    /\ j = 0
    /\ fixed_count = 0
    /\ attempt = 0
    /\ new_translation = None
    /\ cnt = ZeroCnt
    /\ calls = 0
    /\ last = None
    /\ io = {}
    /\ written = {}
    /\ rejected = {}

\* all texts over alphabet A of length at most n
TextsUpTo(A, n) == UNION {[1..k -> A] : k \in 0..n}

(***************************************************************************)
(* add_newline_after_punctuation called alone on every short text.         *)
(***************************************************************************)
MaxTextLen == 4

PunctAlphabet == {"ju", "tan", "wen", "dou", "dun", "fen", "mao", "\\", "n", "zh"}

InitPunct ==
    /\ prog = "add_newline_after_punctuation"
    /\ pc = "call"
    /\ arg \in TextsUpTo(PunctAlphabet, MaxTextLen)
    /\ ret = None
    /\ PipeIdle

CallAddNewline ==
    /\ prog = "add_newline_after_punctuation"
    /\ pc = "call"
    /\ ret' = add_newline_after_punctuation(arg)
    /\ pc' = "returned"
    /\ UNCHANGED <<prog, arg, pipeVars>>

SpecPunct == InitPunct /\ [][CallAddNewline]_vars

(***************************************************************************)
(* validate_translation called alone on every short candidate.             *)
(***************************************************************************)
MaxCandLen == 6

MaxTarget == 2

CandAlphabet == {"\\", "n", "a", "zh", "1"}

InitValidate ==
    /\ prog = "validate_translation"
    /\ pc = "call"
    /\ arg \in [text : TextsUpTo(CandAlphabet, MaxCandLen), target : 0..MaxTarget]
    /\ ret = None
    /\ PipeIdle

CallValidate ==
    /\ prog = "validate_translation"
    /\ pc = "call"
    /\ ret' = validate_translation(<<>>, arg.text, arg.target)
    /\ pc' = "returned"
    /\ UNCHANGED <<prog, arg, pipeVars>>

SpecValidate == InitValidate /\ [][CallValidate]_vars

(***************************************************************************)
(* The two detectors called alone on every small table.                    *)
(***************************************************************************)
MaxDetRows == 2

Header == << <<"1">>, <<"a">>, <<"b">>, <<"n">> >>

DetSources == {<<>>, <<"zh", "\\", "n", "zh">>, <<"\\", "n", "\\", "n">>}

DetTranslations == {<<>>, <<"zh", "dou", "zh">>, <<"zh", "\\", "n">>}

DetRows ==
    {<<>>, << <<"1">>, <<"a">>, <<"\\", "n">> >>}
      \cup {<< <<"1">>, <<"a">>, t, u >> : t \in DetSources, u \in DetTranslations}
      \cup {<< <<"1">>, <<"a">>, <<"\\", "n">>, <<>>, <<"\\", "n">> >>}

\* the tables with a header and at most n data rows drawn from R
TablesUpTo(R, n) ==
    {<<Header>> \o d : d \in UNION {[1..k -> R] : k \in 0..n}}

InitDetect ==
    /\ prog = "detect"
    /\ pc = "call"
    /\ arg \in TablesUpTo(DetRows, MaxDetRows)
    /\ ret = None
    /\ PipeIdle

CallCheckCsvFile ==
    /\ prog = "detect"
    /\ pc = "call"
    /\ ret' = check_csv_file(arg)
    /\ pc' = "checked"
    /\ UNCHANGED <<prog, arg, pipeVars>>

CallAiScan ==
    /\ prog = "detect"
    /\ pc = "call"
    /\ ret' = ai_scan(arg)
    /\ pc' = "scanned"
    /\ UNCHANGED <<prog, arg, pipeVars>>

NextDetect == CallCheckCsvFile \/ CallAiScan

SpecDetect == InitDetect /\ [][NextDetect]_vars

(***************************************************************************)
(* remove_html_tags called alone on every short run of tag pieces.         *)
(***************************************************************************)
MaxPieces == 4

Pieces ==
    { <<"<", "a", ">">>, <<"<", "/", "a", ">">>,
      <<"<", "b", ">">>, <<"<", "/", "b", ">">>,
      <<"<", "a", "b", ">">>, <<"<", "a", "=", "zh", ">">>,
      <<"<", "a", "/", ">">>, <<"zh">>, <<"nl">>, <<"<", "a">> }

RECURSIVE Flatten(_)
Flatten(ps) == IF ps = <<>> THEN <<>> ELSE Head(ps) \o Flatten(Tail(ps))

TagTexts == {Flatten(ps) : ps \in UNION {[1..k -> Pieces] : k \in 0..MaxPieces}}

InitTags ==
    /\ prog = "remove_html_tags"
    /\ pc = "call"
    /\ arg \in TagTexts \cup {None}
    /\ ret = None
    /\ PipeIdle

CallRemoveTags ==
    /\ prog = "remove_html_tags"
    /\ pc = "call"
    /\ ret' = remove_html_tags(arg)
    /\ pc' = "returned"
    /\ UNCHANGED <<prog, arg, pipeVars>>

SpecTags == InitTags /\ [][CallRemoveTags]_vars

(***************************************************************************)
(* The data directory and the text-generation service, as the scripts see  *)
(* them.  open() of a table may raise at any call (readok, writeok); an    *)
(* open for writing that raises leaves the file as it was.                 *)
(***************************************************************************)
MaxRows == 2

FileNames == <<"f1.csv", "f2.csv">>

SrcOne == <<"zh", "\\", "n", "zh">>

ShortRow == << <<"1">>, <<"a">>, SrcOne >>

OkRow == << <<"1">>, <<"a">>, SrcOne, <<"zh", "\\", "n", "zh">> >>

MisRow == << <<"1">>, <<"a">>, SrcOne, <<"zh", "dou", "zh">> >>

DataRows == {ShortRow, OkRow, MisRow}

FileSet == {FileNames[k] : k \in 1..Len(FileNames)}

RECURSIVE DataRowCount(_, _)
DataRowCount(dir, k) ==
    IF k > Len(FileNames) THEN 0
    ELSE (Len(dir[FileNames[k]]) - 1) + DataRowCount(dir, k + 1)

\* the directories that hold at most MaxRows data rows in all
Directories ==
    {dir \in [FileSet -> TablesUpTo(DataRows, MaxRows)] :
        DataRowCount(dir, 1) <= MaxRows}

ServiceError == <<"ServiceError">>

\* message.content of a completion, before any cleaning
Responses ==
    { <<"zh", "dou", "\\", "n", "zh">>,
      <<"sp", "bq", "bq", "bq", "zh", "\\", "n", "zh", "bq", "bq", "bq", "nl">>,
      <<"\\", "n", "zh", "zh">>,
      <<"a", "\\", "n", "b">>,
      <<"zh", "zh">> }

ServiceOutcomes == Responses \cup {ServiceError}

\* rows[k] for a Python index k (negative counts from the end); <<"IndexError">>
\* when out of range
PyRowAt(table, k) ==
    IF k >= 0 /\ k < Len(table) THEN k + 1
    ELSE IF k < 0 /\ Len(table) + k >= 0 THEN Len(table) + k + 1
    ELSE 0

(***************************************************************************)
(* fix_newlines.py                                                         *)
(***************************************************************************)
RuleStart ==
    /\ prog = "fix_newlines"
    /\ pc = "start"
    /\ pc' = "files"
    /\ i' = 1
    /\ cnt' = ZeroCnt
    /\ UNCHANGED <<last, prog, unitVars, env, files, report, dry_run, rows, mismatches,
                   j, fixed_count, attempt, new_translation, calls, io, written,
                   rejected>>

\* one pass of main's for loop: fix_csv_file(csv_file) and the accumulation
RuleFixFile ==
    /\ prog = "fix_newlines"
    /\ pc = "files"
    /\ i <= Len(FileNames)
    /\ \E readok \in BOOLEAN, writeok \in BOOLEAN :
         LET f == FileNames[i]
             r == fix_rows(files[f])
         IN  IF ~readok
             THEN /\ io' = io \cup {"read"}
                  /\ UNCHANGED <<files, cnt>>
             ELSE IF r.fixed_count = 0
             THEN /\ io' = io \cup {"read"}
                  /\ UNCHANGED <<files, cnt>>
             ELSE IF ~writeok
             THEN /\ io' = io \cup {"read", "write"}
                  /\ UNCHANGED <<files, cnt>>
             ELSE /\ io' = io \cup {"read", "write"}
                  /\ files' = [files EXCEPT ![f] = r.rows]
                  /\ cnt' = [cnt EXCEPT !.total_fixed = @ + r.fixed_count]
    /\ i' = i + 1
    /\ UNCHANGED <<last, prog, pc, unitVars, env, report, dry_run, rows, mismatches, j,
                   fixed_count, attempt, new_translation, calls, written, rejected>>

RuleSummary ==
    /\ prog = "fix_newlines"
    /\ pc = "files"
    /\ i > Len(FileNames)
    /\ pc' = "done"
    /\ UNCHANGED <<prog, unitVars, pipeVars>>

(***************************************************************************)
(* fix_newlines_with_ai.py                                                 *)
(***************************************************************************)
\* fix_translation_newlines, given what the service call produced:
\* (text, success)
fix_translation_newlines(outcome, translated_text, target_newline_count) ==
    IF outcome = ServiceError THEN [text |-> translated_text, success |-> FALSE]
    ELSE LET fixed_text == strip(outcome)
         IN  IF count_newlines(fixed_text) = target_newline_count
             THEN [text |-> fixed_text, success |-> TRUE]
             ELSE [text |-> translated_text, success |-> FALSE]

\* the module-level client and main up to the listing of data/*.csv.  With
\* no API key the OpenAI constructor may raise at import; main then never runs
AiStart ==
    /\ prog = "fix_newlines_with_ai"
    /\ pc = "start"
    /\ \E client_raises \in BOOLEAN, choice \in BOOLEAN, confirm \in BOOLEAN :
         IF ~env.key /\ client_raises
         THEN pc' = "import_error" /\ UNCHANGED <<dry_run, i>>
         ELSE IF ~env.key \/ ~env.url
         THEN pc' = "config_error" /\ UNCHANGED <<dry_run, i>>
         ELSE IF ~choice /\ ~confirm
         THEN pc' = "cancelled" /\ UNCHANGED <<dry_run, i>>
         ELSE pc' = "files" /\ dry_run' = choice /\ i' = 1
    /\ cnt' = ZeroCnt
    /\ UNCHANGED <<last, prog, unitVars, env, files, report, rows, mismatches, j,
                   fixed_count, attempt, new_translation, calls, io, written,
                   rejected>>

\* check_and_fix_csv_file up to its repair loop; the early returns give (0, 0)
AiRead ==
    /\ prog = "fix_newlines_with_ai"
    /\ pc = "files"
    /\ i <= Len(FileNames)
    /\ \E readok \in BOOLEAN :
         LET f == FileNames[i]
             m == ai_scan(files[f])
         IN  IF ~readok \/ m = <<>>
             THEN /\ i' = i + 1
                  /\ UNCHANGED <<pc, rows, mismatches, j, fixed_count>>
             ELSE /\ rows' = files[f]
                  /\ mismatches' = m
                  /\ j' = 1
                  /\ fixed_count' = 0
                  /\ pc' = "fixing"
                  /\ UNCHANGED i
    /\ io' = io \cup {"read"}
    /\ UNCHANGED <<last, prog, unitVars, env, files, report, dry_run, attempt,
                   new_translation, cnt, calls, written, rejected>>

\* one pass of the repair loop
AiFixOne ==
    /\ prog = "fix_newlines_with_ai"
    /\ pc = "fixing"
    /\ j <= Len(mismatches)
    /\ IF dry_run
       THEN UNCHANGED <<rows, fixed_count, io, rejected, calls, last>>
       ELSE \E outcome \in ServiceOutcomes :
              LET mismatch == mismatches[j]
                  r == fix_translation_newlines(outcome, mismatch.trans,
                                                mismatch.text_count)
              IN  /\ io' = io \cup {"call"}
                  /\ calls' = 1
                  /\ last' = outcome
                  /\ IF r.success
                     THEN /\ rows' = [rows EXCEPT ![mismatch.row_index + 1][4] = r.text]
                          /\ fixed_count' = fixed_count + 1
                          /\ UNCHANGED rejected
                     ELSE /\ rejected' = rejected \cup
                                {[file |-> FileNames[i], row |-> mismatch.row_num,
                                  trans |-> mismatch.trans]}
                          /\ UNCHANGED <<rows, fixed_count>>
    /\ j' = j + 1
    /\ UNCHANGED <<prog, pc, unitVars, env, files, report, dry_run, i, mismatches,
                   attempt, new_translation, cnt, written>>

\* what check_and_fix_csv_file returns to main after its repair loop
AiReturn(writeok) ==
    IF ~dry_run /\ fixed_count > 0 /\ ~writeok
    THEN [mismatches |-> Len(mismatches), fixed |-> 0]
    ELSE [mismatches |-> Len(mismatches), fixed |-> fixed_count]

\* the write-back, the return, and main's accumulation
AiWrite ==
    /\ prog = "fix_newlines_with_ai"
    /\ pc = "fixing"
    /\ j > Len(mismatches)
    /\ \E writeok \in BOOLEAN :
         LET f == FileNames[i]
             r == AiReturn(writeok)
         IN  /\ IF ~dry_run /\ fixed_count > 0
                THEN /\ io' = io \cup {"write"}
                     /\ IF writeok
                        THEN /\ files' = [files EXCEPT ![f] = rows]
                             /\ written' = written \cup
                                  {[file |-> f, row |-> k, text |-> rows[k][4],
                                    target |-> count_newlines(rows[k][3])] :
                                     k \in {x \in 1..Len(rows) : rows[x] # files[f][x]}}
                        ELSE UNCHANGED <<files, written>>
                ELSE UNCHANGED <<io, files, written>>
             /\ cnt' = [cnt EXCEPT !.total_mismatches = @ + r.mismatches,
                                   !.total_fixed = @ + r.fixed]
    /\ i' = i + 1
    /\ pc' = "files"
    /\ UNCHANGED <<last, prog, unitVars, env, report, dry_run, rows, mismatches, j,
                   fixed_count, attempt, new_translation, calls, rejected>>

AiSummary ==
    /\ prog = "fix_newlines_with_ai"
    /\ pc = "files"
    /\ i > Len(FileNames)
    /\ pc' = "done"
    /\ UNCHANGED <<prog, unitVars, pipeVars>>

(***************************************************************************)
(* fix_newlines_with_api.py                                                *)
(***************************************************************************)
max_retries == 3

MaxReport == 2

Missing == <<"Missing">>

\* the entries parse_mismatches_file can return for a report that
\* check_newlines wrote: an empty translation leaves no 'translation' key
ReportRecords ==
    {[file |-> f, row |-> r, id |-> <<"1">>, name |-> <<"a">>,
      original |-> SrcOne, original_count |-> 1,
      translation |-> t, translation_count |-> 0] :
        f \in FileSet, r \in 2..(MaxRows + 1), t \in {<<"zh", "dou", "zh">>, Missing}}

Reports ==
    {[exists |-> TRUE, mismatches |-> m] :
        m \in UNION {[1..k -> ReportRecords] : k \in 0..MaxReport}}

\* lines 110 and 113: strip, drop the code fences, strip
clean(content) == strip(remove(strip(content), <<"bq", "bq", "bq">>))

\* a plausible slip: the response is returned without being validated
attempt_once_NoValidate(outcome, original_text) ==
    IF outcome = ServiceError THEN None ELSE clean(outcome)

\* one pass of translate_with_api's for loop, given what the service call
\* produced: the text to return, or None to go on
attempt_once(outcome, original_text) ==
    IF outcome = ServiceError THEN None
    ELSE LET translated_text == clean(outcome)
         IN  IF validate_translation(original_text, translated_text,
                                     count_newlines(original_text)).ok
             THEN translated_text
             ELSE None

\* a plausible slip: the row is padded so that index 3 exists
update_csv_file_Padding(table, row_number, new_text, readok, writeok) ==
    IF ~readok THEN [raised |-> TRUE, result |-> FALSE, rows |-> table]
    ELSE IF ~(row_number <= Len(table))
    THEN [raised |-> FALSE, result |-> FALSE, rows |-> table]
    ELSE LET k == PyRowAt(table, row_number - 1)
             padded == IF Len(table[k]) < 4 THEN table[k] \o <<<<>>>> ELSE table[k]
         IN  [raised |-> FALSE, result |-> TRUE,
              rows |-> [table EXCEPT ![k] = [padded EXCEPT ![4] = new_text]]]

\* update_csv_file on the stored table: whether it raised, what it returned
\* and the table the file holds afterwards
update_csv_file(table, row_number, new_text, readok, writeok) ==
    IF ~readok THEN [raised |-> TRUE, result |-> FALSE, rows |-> table]
    ELSE IF ~(row_number <= Len(table))
    THEN [raised |-> FALSE, result |-> FALSE, rows |-> table]
    ELSE LET k == PyRowAt(table, row_number - 1)
         IN  IF k = 0 \/ Len(table[k]) < 4 \/ ~writeok
             THEN [raised |-> TRUE, result |-> FALSE, rows |-> table]
             ELSE [raised |-> FALSE, result |-> TRUE,
                   rows |-> [table EXCEPT ![k][4] = new_text]]

\* a plausible slip: the else branch that counts a skipped record is lost
main_tally_NoSkip(c, outcome) ==
    IF outcome = "updated" THEN [c EXCEPT !.success_count = @ + 1]
    ELSE IF outcome = "not updated" THEN [c EXCEPT !.fail_count = @ + 1]
    ELSE c

\* lines 261-274: the counter main bumps for a record
main_tally(c, outcome) ==
    IF outcome = "updated" THEN [c EXCEPT !.success_count = @ + 1]
    ELSE IF outcome = "not updated" THEN [c EXCEPT !.fail_count = @ + 1]
    ELSE [c EXCEPT !.skip_count = @ + 1]

\* main up to its loop: the settings fall back to built-in defaults, so a
\* client is always made
ApiStart ==
    /\ prog = "fix_newlines_with_api"
    /\ pc = "start"
    /\ IF ~report.exists
       THEN pc' = "no_report" /\ UNCHANGED i
       ELSE pc' = "loop" /\ i' = 1
    /\ cnt' = ZeroCnt
    /\ UNCHANGED <<last, prog, unitVars, env, files, report, dry_run, rows,
                   mismatches, j, fixed_count, attempt, new_translation, calls,
                   io, written, rejected>>

\* lines 247-252: the prints that open a pass of main's loop; a record
\* without a translation raises KeyError here
ApiBegin ==
    /\ prog = "fix_newlines_with_api"
    /\ pc = "loop"
    /\ i <= Len(report.mismatches)
    /\ IF report.mismatches[i].translation = Missing
       THEN pc' = "crashed" /\ UNCHANGED <<attempt, calls>>
       ELSE pc' = "translate" /\ attempt' = 0 /\ calls' = 0
    /\ UNCHANGED <<last, prog, unitVars, env, files, report, dry_run, i, rows,
                   mismatches, j, fixed_count, new_translation, cnt, io, written,
                   rejected>>

\* one pass of translate_with_api's for loop; the last failed pass falls out
\* of the loop and returns None
ApiAttempt ==
    /\ prog = "fix_newlines_with_api"
    /\ pc = "translate"
    /\ attempt < max_retries
    /\ \E outcome \in ServiceOutcomes :
         LET r == attempt_once(outcome, report.mismatches[i].original)
         IN  /\ last' = outcome
             /\ IF r # None
                THEN /\ new_translation' = r
                     /\ pc' = "returned"
                     /\ UNCHANGED <<attempt, rejected>>
                ELSE /\ attempt' = attempt + 1
                     /\ IF attempt + 1 < max_retries
                        THEN UNCHANGED <<pc, new_translation, rejected>>
                        ELSE /\ new_translation' = None
                             /\ pc' = "returned"
                             /\ rejected' = rejected \cup
                                  {[file |-> report.mismatches[i].file, row |-> report.mismatches[i].row,
                                    entry |-> i]}
    /\ calls' = calls + 1
    /\ io' = io \cup {"call"}
    /\ UNCHANGED <<prog, unitVars, env, files, report, dry_run, i, rows,
                   mismatches, j, fixed_count, cnt, written>>

\* lines 261-277: what main does with translate_with_api's return value;
\* translate_with_api's locals and the histories of the call end with it
ApiFinish ==
    /\ prog = "fix_newlines_with_api"
    /\ pc = "returned"
    /\ IF new_translation # None /\ new_translation # <<>>
       THEN \E readok \in BOOLEAN, writeok \in BOOLEAN :
              LET f == report.mismatches[i].file
                  u == update_csv_file(files[f], report.mismatches[i].row, new_translation,
                                       readok, writeok)
              IN  /\ io' = io \cup (IF u.result THEN {"read", "write"} ELSE {"read"})
                  /\ files' = [files EXCEPT ![f] = u.rows]
                  /\ IF u.raised
                     THEN pc' = "crashed" /\ UNCHANGED <<cnt, i, written>>
                     ELSE /\ pc' = "loop"
                          /\ i' = i + 1
                          /\ cnt' = main_tally(cnt, IF u.result THEN "updated"
                                                    ELSE "not updated")
                          /\ written' =
                               IF u.result
                               THEN written \cup
                                      {[file |-> f, row |-> report.mismatches[i].row,
                                        text |-> new_translation,
                                        target |-> count_newlines(report.mismatches[i].original)]}
                               ELSE written
       ELSE /\ cnt' = main_tally(cnt, "skipped")
            /\ pc' = "loop"
            /\ i' = i + 1
            /\ UNCHANGED <<files, io, written>>
    /\ attempt' = 0
    /\ calls' = 0
    /\ last' = None
    /\ new_translation' = None
    /\ UNCHANGED <<prog, unitVars, env, report, dry_run, rows, mismatches, j,
                   fixed_count, rejected>>

ApiSummary ==
    /\ prog = "fix_newlines_with_api"
    /\ pc = "loop"
    /\ i > Len(report.mismatches)
    /\ pc' = "done"
    /\ UNCHANGED <<prog, unitVars, pipeVars>>

(***************************************************************************)
(* The three repair scripts, each run on every small directory.            *)
(***************************************************************************)
Settings == [key : BOOLEAN, url : BOOLEAN]

Init ==
    /\ prog \in {"fix_newlines", "fix_newlines_with_ai", "fix_newlines_with_api"}
    /\ pc = "start"
    /\ arg = None
    /\ ret = None
    /\ files \in Directories
    /\ env \in (IF prog = "fix_newlines" THEN {[key |-> TRUE, url |-> TRUE]}
                ELSE Settings)
    /\ report \in (IF prog = "fix_newlines_with_api" THEN Reports \cup {NoReport}
                   ELSE {NoReport})
    /\ dry_run = FALSE
    /\ i = 0
    /\ rows = <<>>
    /\ mismatches = <<>>
    /\ j = 0
    /\ fixed_count = 0
    /\ attempt = 0
    /\ new_translation = None
    /\ cnt = ZeroCnt
    /\ calls = 0
    /\ last = None
    /\ io = {}
    /\ written = {}
    /\ rejected = {}

Next ==
    \/ RuleStart \/ RuleFixFile \/ RuleSummary
    \/ AiStart \/ AiRead \/ AiFixOne \/ AiWrite \/ AiSummary
    \/ ApiStart \/ ApiBegin \/ ApiAttempt \/ ApiFinish \/ ApiSummary

Spec == Init /\ [][Next]_vars

\* the scripts are sequential programs: a loop that can make its next pass
\* makes it (a service call returns or raises)
FairSpec == Spec /\ WF_vars(ApiAttempt)

(***************************************************************************)
(* The mismatch report newline_mismatches.txt: written by                  *)
(* check_newlines.main, read back by parse_mismatches_file.  The file is a *)
(* text; "title" stands for the heading, "wenjian", "hanghao", "ID",       *)
(* "mingcheng", "yuanwen", "yiwen", "col3", "col4" and "ge" for the words   *)
(* of the labels.                                                          *)
(***************************************************************************)
DigitChars == <<"0", "1", "2", "3", "4", "5", "6", "7", "8", "9">>

RECURSIVE str_int(_)
\* an int formatted by an f-string
str_int(n) ==
    IF n < 10 THEN <<DigitChars[n + 1]>>
    ELSE str_int(n \div 10) \o <<DigitChars[(n % 10) + 1]>>

isdigit(c) == \E d \in 1..10 : DigitChars[d] = c

RECURSIVE int_from(_, _)
int_from(s, acc) ==
    IF s = <<>> THEN acc
    ELSE int_from(Tail(s), 10 * acc + (CHOOSE d \in 0..9 : DigitChars[d + 1] = s[1]))

\* int(s) of a text of decimal digits
int_(s) == int_from(s, 0)

RuleLen == 80

\* "-" * 80 and "=" * 80
Rule(c) == [k \in 1..RuleLen |-> c]

LabelFile == <<"wenjian", ":">>

LabelRow == <<"hanghao", ":">>

LabelId == <<"ID", ":">>

LabelName == <<"mingcheng", ":">>

LabelOriginal == <<"yuanwen", "sp", "(", "col3", ",", "sp">>

LabelTranslation == <<"yiwen", "sp", "(", "col4", ",", "sp">>

\* the text between the count and the value: ge, backslash, n, "): "
CountTail == <<"ge", "\\", "n", ")", ":", "sp">>

\* one pass of the loop at lines 109-116 of check_newlines.py
write_item(item) ==
    LabelFile \o <<"sp">> \o item.file \o <<"nl">>
      \o LabelRow \o <<"sp">> \o str_int(item.row) \o <<"nl">>
      \o LabelId \o <<"sp">> \o item.id \o <<"nl">>
      \o LabelName \o <<"sp">> \o item.name \o <<"nl">>
      \o LabelOriginal \o str_int(item.text_count) \o CountTail
      \o item.text \o <<"nl">>
      \o LabelTranslation \o str_int(item.trans_count) \o CountTail
      \o item.trans \o <<"nl">>
      \o Rule("-") \o <<"nl", "nl">>

RECURSIVE write_items(_, _)
write_items(all_mismatches, k) ==
    IF k > Len(all_mismatches) THEN <<>>
    ELSE write_item(all_mismatches[k]) \o write_items(all_mismatches, k + 1)

\* the text check_newlines.main writes for a non-empty list
write_report(all_mismatches) ==
    <<"title", "nl">> \o Rule("=") \o <<"nl", "nl">>
      \o write_items(all_mismatches, 1)

\* mismatch = {}: no key is set; -1 stands for an integer key that is not set
EmptyEntry ==
    [file |-> Missing, row |-> -1, id |-> Missing, name |-> Missing,
     original |-> Missing, original_count |-> -1,
     translation |-> Missing, translation_count |-> -1]

\* line.split(':', 1)[1].strip() of a line that holds a colon
after_colon(line) == strip(Slice(line, find(line, <<":">>) + 1, Len(line)))

RECURSIVE DigitRun(_, _)
\* how many digits stand in s from the 0-based position p on
DigitRun(s, p) ==
    IF p < Len(s) /\ isdigit(s[p + 1]) THEN 1 + DigitRun(s, p + 1) ELSE 0

\* label (\d+) CountTail (.+) matched at the 0-based position p of the line:
\* the digits are followed by a non-digit, so \d+ takes the whole run; .+
\* needs at least one character and takes the rest of the line
count_match_at(line, label, p) ==
    LET d == DigitRun(line, p + Len(label))
        q == p + Len(label) + d
    IN  IF /\ MatchAt(line, label, p)
           /\ d >= 1
           /\ MatchAt(line, CountTail, q)
           /\ q + Len(CountTail) < Len(line)
        THEN [found |-> TRUE,
              group1 |-> Slice(line, p + Len(label), q),
              group2 |-> Slice(line, q + Len(CountTail), Len(line))]
        ELSE [found |-> FALSE, group1 |-> <<>>, group2 |-> <<>>]

RECURSIVE count_search_from(_, _, _)
count_search_from(line, label, p) ==
    IF p >= Len(line) THEN [found |-> FALSE, group1 |-> <<>>, group2 |-> <<>>]
    ELSE LET m == count_match_at(line, label, p)
         IN  IF m.found THEN m ELSE count_search_from(line, label, p + 1)

\* re.search of the pattern of line 198 or 204 in a line: the leftmost match
count_search(line, label) == count_search_from(line, label, 0)

\* the if/elif chain of lines 188-208 on one line
parse_line(mismatch, line) ==
    IF startswith(line, LabelFile)
    THEN [mismatch EXCEPT !.file = after_colon(line)]
    ELSE IF startswith(line, LabelRow)
    THEN [mismatch EXCEPT !.row = int_(after_colon(line))]
    ELSE IF startswith(line, LabelId)
    THEN [mismatch EXCEPT !.id = after_colon(line)]
    ELSE IF startswith(line, LabelName)
    THEN [mismatch EXCEPT !.name = after_colon(line)]
    ELSE IF startswith(line, <<"yuanwen">>)
    THEN LET match == count_search(line, LabelOriginal)
         IN  IF match.found
             THEN [mismatch EXCEPT !.original_count = int_(match.group1),
                                   !.original = match.group2]
             ELSE mismatch
    ELSE IF startswith(line, <<"yiwen">>)
    THEN LET match == count_search(line, LabelTranslation)
         IN  IF match.found
             THEN [mismatch EXCEPT !.translation_count = int_(match.group1),
                                   !.translation = match.group2]
             ELSE mismatch
    ELSE mismatch

RECURSIVE parse_lines(_, _, _)
parse_lines(mismatch, lines, k) ==
    IF k > Len(lines) THEN mismatch
    ELSE parse_lines(parse_line(mismatch, lines[k]), lines, k + 1)

RECURSIVE parse_records(_, _)
\* the loop of lines 180-210 over the pieces between the separator lines
parse_records(records, k) ==
    IF k > Len(records) THEN <<>>
    ELSE IF ~contains(records[k], LabelFile) THEN parse_records(records, k + 1)
    ELSE LET lines == split(strip(records[k]), <<"nl">>)
             mismatch == parse_lines(EmptyEntry, lines, 1)
         IN  IF mismatch.file # Missing /\ mismatch.original # Missing
             THEN <<mismatch>> \o parse_records(records, k + 1)
             ELSE parse_records(records, k + 1)

\* parse_mismatches_file on a readable file with this content
parse_mismatches_file(content) == parse_records(split(content, Rule("-")), 1)

(***************************************************************************)
(* The report written and read back, for every short list of mismatch      *)
(* records the detector can produce.                                       *)
(***************************************************************************)
MaxRecs == 2

RepFiles == {<<"f", "1">>, <<"f", "2">>}

RepRowNums == {2, 12}

RepIds == {<<"1">>, <<>>}

\* (source, translation) with different marker counts
RepTexts ==
    {<< <<"zh", "\\", "n", "zh">>, <<"zh", "dou", "zh">> >>,
     << <<"zh", "\\", "n", "zh">>, <<>> >>,
     << <<>>, <<"zh", "\\", "n">> >>,
     << <<"zh", "\\", "n", "\\", "n", "a">>, <<"a", "\\", "n", "zh">> >>}

RepRecords ==
    {[file |-> f, row |-> r, id |-> d, name |-> <<"a">>,
      text |-> t[1], trans |-> t[2],
      text_count |-> count_newlines(t[1]),
      trans_count |-> count_newlines(t[2])] :
        f \in RepFiles, r \in RepRowNums, d \in RepIds, t \in RepTexts}

InitReport ==
    /\ prog = "report"
    /\ pc = "call"
    /\ arg \in UNION {[1..k -> RepRecords] : k \in 0..MaxRecs}
    /\ ret = None
    /\ PipeIdle

\* check_newlines.main, lines 103-117: the file is written only for a
\* non-empty list
WriteReport ==
    /\ prog = "report"
    /\ pc = "call"
    /\ IF arg # <<>>
       THEN pc' = "written" /\ ret' = write_report(arg)
       ELSE pc' = "nofile" /\ ret' = None
    /\ UNCHANGED <<prog, arg, pipeVars>>

ParseReport ==
    /\ prog = "report"
    /\ pc = "written"
    /\ ret' = parse_mismatches_file(ret)
    /\ pc' = "parsed"
    /\ UNCHANGED <<prog, arg, pipeVars>>

NextReport == WriteReport \/ ParseReport

SpecReport == InitReport /\ [][NextReport]_vars

(***************************************************************************)
(* fix_csv_file called alone on every short table.                         *)
(***************************************************************************)
\* fix_csv_file(file_path) on a file that holds this table: what it returns,
\* what the file holds afterwards, and whether the file was rewritten
fix_csv_file(table, readok, writeok) ==
    LET r == fix_rows(table)
    IN  IF ~readok
        THEN [fixed_count |-> 0, file |-> table, wrote |-> FALSE]
        ELSE IF r.fixed_count > 0
        THEN IF writeok
             THEN [fixed_count |-> r.fixed_count, file |-> r.rows, wrote |-> TRUE]
             ELSE [fixed_count |-> 0, file |-> table, wrote |-> FALSE]
        ELSE [fixed_count |-> 0, file |-> table, wrote |-> FALSE]

MaxFixRows == 2

FixSources == {SrcOne, <<"zh">>, <<"\\", "n", "zh", "\\", "n">>}

FixTranslations ==
    {<<"zh", "dou", "zh">>, <<"zh", "ju">>, <<"zh", "zh">>,
     <<"zh", "dou", "\\", "n", "zh">>, <<"dou", "zh", "ju", "zh">>}

FixDataRows ==
    {<<>>, ShortRow, MisRow \o << <<"b">> >>}
      \cup {<< <<"1">>, <<"a">>, t, u >> : t \in FixSources, u \in FixTranslations}

\* a header may look like a row to repair
FixHeaders == {Header, MisRow}

FixTables ==
    {<<h>> \o d : h \in FixHeaders,
                  d \in UNION {[1..k -> FixDataRows] : k \in 0..MaxFixRows}}

InitFix ==
    /\ prog = "fix_csv_file"
    /\ pc = "call"
    /\ arg \in FixTables
    /\ ret = None
    /\ PipeIdle

CallFixCsvFile ==
    /\ prog = "fix_csv_file"
    /\ pc = "call"
    /\ \E readok \in BOOLEAN, writeok \in BOOLEAN :
         ret' = fix_csv_file(arg, readok, writeok)
    /\ pc' = "returned"
    /\ UNCHANGED <<prog, arg, pipeVars>>

SpecFix == InitFix /\ [][CallFixCsvFile]_vars

(***************************************************************************)
(* Properties.  The reference notions below are written from the wording   *)
(* of the properties, by position in the text, not with the operators      *)
(* above.                                                                  *)
(***************************************************************************)
\* the positions at which a marker starts
MarkerAt(t) == {p \in 1..(Len(t) - 1) : t[p] = "\\" /\ t[p + 1] = "n"}

NumMarkers(t) == Cardinality(MarkerAt(t))

PunctSet == {punctuation_priority[k] : k \in 1..Len(punctuation_priority)}

\* c occurs in t and its first occurrence is not the final character
Qualifies(t, c) ==
    \E p \in 1..(Len(t) - 1) : t[p] = c /\ \A q \in 1..(p - 1) : t[q] # c

InsertAfter(t, p) == SubSeq(t, 1, p) \o <<"\\", "n">> \o SubSeq(t, p + 1, Len(t))

RefInsert(t) ==
    IF \E k \in 1..7 : Qualifies(t, punctuation_priority[k])
    THEN LET k == CHOOSE k \in 1..7 :
                     /\ Qualifies(t, punctuation_priority[k])
                     /\ \A h \in 1..(k - 1) : ~Qualifies(t, punctuation_priority[h])
             p == CHOOSE p \in 1..Len(t) :
                     /\ t[p] = punctuation_priority[k]
                     /\ \A q \in 1..(p - 1) : t[q] # punctuation_priority[k]
         IN  InsertAfter(t, p)
    ELSE t

\* C5: add_newline_after_punctuation(t) is the reference result (the first
\* punctuation in priority order whose first occurrence is not the final
\* character gets one marker right after that occurrence, otherwise t is
\* returned unchanged); so the output is the input, or the input with exactly
\* one more marker, placed after a listed punctuation and before the end.
C5_PunctuationReference ==
    (prog = "add_newline_after_punctuation" /\ pc = "returned") =>
        /\ ret = RefInsert(arg)
        /\ \/ ret = arg
           \/ /\ NumMarkers(ret) = NumMarkers(arg) + 1
              /\ \E p \in 1..(Len(arg) - 1) :
                     arg[p] \in PunctSet /\ ret = InsertAfter(arg, p)

\* a text whose best punctuation is final, so a lower one earlier is used
C5_Witness ==
    /\ prog = "add_newline_after_punctuation" /\ pc = "returned"
    /\ arg = <<"zh", "dou", "zh", "ju">>
    /\ ret = <<"zh", "dou", "\\", "n", "zh", "ju">>

Letters == {"a", "b", "n"}

\* the marker at p has an ASCII letter right before it and right after it;
\* an n that ends another marker is no character of a part
SplitsWord(c, p) ==
    /\ p > 1 /\ c[p - 1] \in Letters /\ (p - 2) \notin MarkerAt(c)
    /\ p + 2 <= Len(c) /\ c[p + 2] \in Letters

RefValid(c, n) ==
    /\ NumMarkers(c) = n
    /\ 1 \notin MarkerAt(c)
    /\ (Len(c) - 1) \notin MarkerAt(c)
    /\ \A p \in MarkerAt(c) : ~SplitsWord(c, p)

\* C6: validate_translation accepts c for target n exactly when the marker
\* count of c is n, c neither starts nor ends with the marker, and no marker
\* stands between two ASCII letters.
C6_ValidatorAccepts ==
    (prog = "validate_translation" /\ pc = "returned") =>
        (ret.ok <=> RefValid(arg.text, arg.target))

\* two adjacent markers between letters: accepted, nothing is split
C6_Witness ==
    /\ prog = "validate_translation" /\ pc = "returned"
    /\ arg = [text |-> <<"a", "\\", "n", "\\", "n", "a">>, target |-> 2]
    /\ ret.ok

RefMismatch(row) == Len(row) >= 4 /\ NumMarkers(row[3]) # NumMarkers(row[4])

\* the records m, whose row position is pos(m[x]), are the mismatches of table
DetectorOK(table, m, pos(_)) ==
    /\ \A k \in 2..Len(table) :
           RefMismatch(table[k]) <=> \E x \in 1..Len(m) : pos(m[x]) = k
    /\ \A x \in 1..Len(m) :
           /\ pos(m[x]) \in 2..Len(table)
           /\ m[x].text = table[pos(m[x])][3]
           /\ m[x].trans = table[pos(m[x])][4]
           /\ m[x].id = table[pos(m[x])][1]
           /\ m[x].name = table[pos(m[x])][2]
           /\ m[x].text_count = NumMarkers(m[x].text)
           /\ m[x].trans_count = NumMarkers(m[x].trans)
    /\ \A x, y \in 1..Len(m) : x < y => pos(m[x]) < pos(m[y])

RowOf(m) == m.row

RowNumOf(m) == m.row_num

\* C7: both detectors emit a record for a data row exactly when the row has
\* at least 4 fields and the marker counts of fields 3 and 4 differ; a record
\* carries both field values, both counts and the row position counted from
\* the header as 1; positions are strictly increasing.
C7_DetectorRecords ==
    /\ (prog = "detect" /\ pc = "checked") => DetectorOK(arg, ret, RowOf)
    /\ (prog = "detect" /\ pc = "scanned") =>
           /\ DetectorOK(arg, ret, RowNumOf)
           /\ \A x \in 1..Len(ret) : ret[x].row_index = ret[x].row_num - 1

\* a short row first, then a mismatch: one record, at row 3
C7_Witness ==
    /\ prog = "detect" /\ pc = "checked"
    /\ Len(arg) = 3 /\ Len(arg[2]) = 3 /\ Len(arg[3]) = 5
    /\ Len(ret) = 1 /\ ret[1].row = 3

\* an opening tag <name ...> at p, and later on the same line </name>
HasPair(t) ==
    \E p \in 1..Len(t) :
        /\ t[p] = "<"
        /\ \E L \in 1..(Len(t) - p) :
               /\ \A q \in (p + 1)..(p + L) : t[q] \in WordChars
               /\ p + L < Len(t)
               /\ t[p + L + 1] \notin WordChars
               /\ \E g \in (p + L + 1)..Len(t) :
                      /\ t[g] = ">"
                      /\ \A q \in (p + 1)..(g - 1) : t[q] # ">"
                      /\ \E c \in (g + 1)..(Len(t) - L - 2) :
                             /\ t[c] = "<" /\ t[c + 1] = "/" /\ t[c + L + 2] = ">"
                             /\ \A q \in 1..L : t[c + 1 + q] = t[p + q]
                             /\ \A q \in (g + 1)..(c - 1) : t[q] # "nl"

RECURSIVE EveryPassShortens(_)
\* each pass of the while loop, from text t on, returns a shorter text
EveryPassShortens(t) ==
    re_search(t).found =>
        (Len(re_sub(t)) < Len(t) /\ EveryPassShortens(re_sub(t)))

\* C10: remove_html_tags ends (each pass of its loop shortens the text) and
\* its output is a fixed point that holds no opening tag followed on the same
\* line by the closing tag of the same name.
C10_TagFixedPoint ==
    (prog = "remove_html_tags" /\ pc = "returned") =>
        /\ remove_html_tags(ret) = ret
        /\ ret # None => ~HasPair(ret)
        /\ arg # None => EveryPassShortens(arg)

\* a nested pair: one substitution pass is not enough
C10_Witness ==
    /\ prog = "remove_html_tags" /\ pc = "returned"
    /\ arg = <<"<", "a", ">", "<", "b", ">", "<", "/", "b", ">", "<", "/", "a", ">">>
    /\ re_sub(arg) # ret
    /\ ret = <<>>

Ai == "fix_newlines_with_ai"

Api == "fix_newlines_with_api"

\* C1: a translation field is overwritten with a service response only if
\* the response passes all three validator checks for the source's marker
\* count, in both model-assisted repair paths.
C1_OnlyValidatedStored ==
    \A w \in written : RefValid(w.text, w.target)

\* the number of attempts the property names
ClaimedRetries == 3

\* the service produced a text that, once cleaned, is valid for the entry
ValidOutcome(o, entry) ==
    o # ServiceError /\ RefValid(clean(o), NumMarkers(entry.original))

C2_State ==
    prog = Api =>
        /\ calls <= ClaimedRetries
        /\ pc = "translate" => (attempt < ClaimedRetries /\ calls = attempt)
        /\ pc = "returned" =>
              IF new_translation # None
              THEN /\ ValidOutcome(last, report.mismatches[i])
                   /\ new_translation = clean(last)
              ELSE calls = ClaimedRetries

C2_Step ==
    (prog = Api /\ pc = "translate") =>
        /\ calls' = calls + 1
        /\ pc' \in {"translate", "returned"}
        /\ IF ValidOutcome(last', report.mismatches[i])
           THEN pc' = "returned" /\ new_translation' = clean(last')
           ELSE /\ attempt' = attempt + 1
                /\ pc' = "returned" <=> attempt' = ClaimedRetries
                /\ pc' = "returned" => new_translation' = None

\* C2: translate_with_api invokes the service at most 3 times per mismatch
\* and ends: it returns the first response that passes validation, every
\* failed attempt (invalid response or service error) uses up one attempt,
\* and after the third failure it returns None with no further invocation.
C2_BoundedRetries ==
    /\ [](C2_State)
    /\ [][C2_Step]_vars
    /\ [][(prog = Api /\ pc = "returned") => (calls' = 0 /\ pc' # "translate")]_vars
    /\ (prog = Api /\ pc = "translate") ~> (pc = "returned")

\* two failures of different kinds, then a valid response on the last attempt
C2_Witness ==
    /\ prog = Api /\ pc = "returned"
    /\ calls = 3 /\ attempt = 2
    /\ new_translation = <<"zh", "dou", "\\", "n", "zh">>

\* C3: no error raised while one file or one mismatch is processed aborts a
\* batch: every entry point goes on and reaches its summary.
C3_NoErrorAborts == pc # "crashed"

C4_State ==
    /\ prog = Ai =>
          /\ \A c \in rejected : files[c.file][c.row][4] = c.trans
          /\ pc = "fixing" =>
                \A c \in rejected : c.file = FileNames[i] => rows[c.row][4] = c.trans
          /\ pc \in {"files", "done"} =>
                cnt.total_mismatches - cnt.total_fixed >= Cardinality(rejected)
    /\ prog = Api =>
          /\ pc \in {"loop", "done"} => cnt.skip_count >= Cardinality(rejected)

C4_Step ==
    (prog = Api /\ pc = "returned" /\ new_translation = None) =>
        /\ files' = files
        /\ pc' = "loop"
        /\ cnt'.skip_count = cnt.skip_count + 1

\* C4: when a model-assisted repair is rejected the stored translation of
\* that row stays as it was and the mismatch is counted as not repaired in
\* the final tally (skip_count, total_mismatches - total_fixed).
C4_RejectedKept == [](C4_State) /\ [][C4_Step]_vars

\* fix_newlines_with_ai rewrote a file that holds an accepted and a rejected row
C4_Witness ==
    /\ prog = Ai /\ pc = "done"
    /\ \E c \in rejected, w \in written : c.file = w.file
    /\ cnt.total_mismatches - cnt.total_fixed = 1

\* C8: no repair operation changes a stored row that has fewer than 4
\* fields, update_csv_file given that row's number included.
C8_ShortRowsKept ==
    [][\A f \in DOMAIN files : \A k \in DOMAIN files[f] :
          Len(files[f][k]) < 4 =>
              (k \in DOMAIN files'[f] /\ files'[f][k] = files[f][k])]_vars

\* update_csv_file was given the number of a row of 3 fields
C8_Witness ==
    /\ prog = Api /\ pc = "crashed"
    /\ report.mismatches[i].translation # Missing
    /\ report.mismatches[i].row <= Len(files[report.mismatches[i].file])
    /\ Len(files[report.mismatches[i].file][report.mismatches[i].row]) < 4

\* C9: in both model-assisted scripts a missing API key or endpoint URL ends
\* the run with a configuration error before a table is read or written and
\* before the service is called.
C9_ConfigErrorFirst ==
    (prog \in {Ai, Api} /\ (~env.key \/ ~env.url)) =>
        io = {}

(***************************************************************************)
(* The reason validate_translation gives.                                  *)
(***************************************************************************)
AtEdge(c) == 1 \in MarkerAt(c) \/ (Len(c) - 1) \in MarkerAt(c)

\* the first failing check in the order count, start/end, letter-split
RefReason(c, n) ==
    IF NumMarkers(c) # n THEN "count"
    ELSE IF AtEdge(c) THEN "edge"
    ELSE IF \E p \in MarkerAt(c) : SplitsWord(c, p) THEN "cut"
    ELSE "ok"

\* C11: a candidate whose marker count differs from the target is rejected
\* with the count-mismatch reason, whatever else is wrong with it; in general
\* the reason is that of the first failing check in the order count,
\* start/end, letter-split.
C11_FirstFailingReason ==
    (prog = "validate_translation" /\ pc = "returned") =>
        /\ (NumMarkers(arg.text) # arg.target =>
                ret = [ok |-> FALSE, message |-> "count"])
        /\ ret.message = RefReason(arg.text, arg.target)
        /\ ret.ok <=> ret.message = "ok"

\* wrong count, a marker at the head and a split word at once
C11_Witness ==
    /\ prog = "validate_translation" /\ pc = "returned"
    /\ arg = [text |-> <<"\\", "n", "a", "\\", "n", "a">>, target |-> 1]
    /\ ret.message = "count"

(***************************************************************************)
(* The report read back.                                                   *)
(***************************************************************************)
\* the entry has every key, with the values of the written record
SameRecord(item, entry) ==
    /\ entry.file = item.file
    /\ entry.row = item.row
    /\ entry.id = item.id
    /\ entry.name = item.name
    /\ entry.original = item.text
    /\ entry.translation = item.trans
    /\ entry.original_count = item.text_count
    /\ entry.translation_count = item.trans_count

\* C12: parse_mismatches_file on the report written for a list of mismatch
\* records yields one entry per record, in the same order, each with the
\* record's file name, row number, identifier, display name, source text,
\* translation text and both counts, an empty source or translation text
\* included.
C12_ReportRoundTrip ==
    (prog = "report" /\ pc = "parsed") =>
        /\ Len(ret) = Len(arg)
        /\ \A k \in 1..Len(arg) : SameRecord(arg[k], ret[k])

\* records with texts that are not empty do come back
C12_NonEmptyComesBack ==
    /\ prog = "report" /\ pc = "parsed"
    /\ Len(arg) = 2
    /\ arg[1].row = 12 /\ arg[2].row = 2
    /\ Len(ret) = 2
    /\ \A k \in 1..2 : SameRecord(arg[k], ret[k])

(***************************************************************************)
(* The rule-based repair of one file.                                      *)
(***************************************************************************)
\* row k of the file changed in field 4 and nowhere else
OnlyField4(before, after) ==
    /\ Len(after) = Len(before)
    /\ \A c \in 1..Len(before) : c # 4 => after[c] = before[c]

\* C13: fix_csv_file changes field 4 of a row only if the row's source has
\* one marker and its translation none, and the new translation then has one
\* marker; every other row and field, the header and the row order are
\* written back unchanged, and the file is rewritten only when a row changed.
C13_RuleFrame ==
    (prog = "fix_csv_file" /\ pc = "returned") =>
        /\ Len(ret.file) = Len(arg)
        /\ ret.file[1] = arg[1]
        /\ \A k \in 2..Len(arg) :
              /\ OnlyField4(arg[k], ret.file[k])
              /\ ret.file[k] # arg[k] =>
                    /\ NumMarkers(arg[k][3]) = 1
                    /\ NumMarkers(arg[k][4]) = 0
                    /\ NumMarkers(ret.file[k][4]) = 1
        /\ ret.wrote => \E k \in 2..Len(arg) : ret.file[k] # arg[k]
        /\ ~ret.wrote => ret.file = arg

\* one row repaired after the full stop, the next one (two markers in the
\* source) left alone, under a header that looks like a row to repair
C13_Witness ==
    /\ prog = "fix_csv_file" /\ pc = "returned"
    /\ ret.wrote
    /\ Len(arg) = 3
    /\ arg[1] = MisRow
    /\ Len(arg[2]) = 4
    /\ arg[2][4] = <<"dou", "zh", "ju", "zh">>
    /\ ret.file[2][4] = <<"dou", "zh", "ju", "\\", "n", "zh">>
    /\ arg[3] = << <<"1">>, <<"a">>, <<"\\", "n", "zh", "\\", "n">>, <<"zh", "dou", "zh">> >>
    /\ ret.file[3] = arg[3]

=============================================================================
